---- MODULE Spec2Model ----
(***************************************************************************)
(* A model of scripts/tes4_pack.py: the driver that packs one directory    *)
(* with bsarch once per (format, flag combination).                        *)
(*                                                                         *)
(* Spec      the whole script, from the command line to the exit status.   *)
(* FairSpec  Spec plus weak fairness of every step: the interpreter keeps  *)
(*           running and every started archiver eventually exits.         *)
(* SpecPure  the body of the inner loop (lines 20-28) applied to one       *)
(*           format and one tuple of flag values.                          *)
(***************************************************************************)
EXTENDS Integers, Sequences, FiniteSets, TLC

VARIABLES
    pc,            \* where the script is
    argc,          \* number of positional arguments on the command line
    bsarch_ok,     \* whether a_args.bsarch can be executed
    cwd,           \* the process's working directory: "orig", "here", "bin"
    bin,           \* what "bin" next to the script is: "absent", "dir", "file"
    bin_created,   \* whether this run created "bin"
    combinations,  \* what the iterator of line 16 has yet to yield
    fmt_i,         \* position of the iterator over formats (line 18)
    format,        \* loop variable of line 18
    combo,         \* loop variable of line 19
    af,            \* line 20
    args,          \* the argument list of line 21
    calls,         \* every subprocess.run call made so far, in order
    exit_code      \* <<>> while running, <<n>> once the process has exited

vars == <<pc, argc, bsarch_ok, cwd, bin, bin_created, combinations, fmt_i,
          format, combo, af, args, calls, exit_code>>

----------------------------------------------------------------------------
(* Bounds of the model. *)

\* the command line carries 0..MaxArgs positional arguments
MaxArgs == 3
\* an archiver exits with a status in 0..MaxExit
MaxExit == 2

----------------------------------------------------------------------------
(* Flags, lines 3-8. *)

RECURSIVE shl(_, _)
shl(a, n) == IF n = 0 THEN a ELSE shl(2 * a, n - 1)

directory_strings == shl(1, 0)
file_strings == shl(1, 1)
compressed == shl(1, 2)
embedded_file_names == shl(1, 8)

\* iterating the enum yields its members in definition order
Flags == <<directory_strings, file_strings, compressed, embedded_file_names>>

formats == <<"tes4", "tes5", "sse">>

----------------------------------------------------------------------------
(* powerset, lines 10-13. *)

RECURSIVE chain_from_iterable(_)
chain_from_iterable(ss) ==
    IF ss = <<>> THEN <<>> ELSE Head(ss) \o chain_from_iterable(Tail(ss))

\* itertools.combinations(s, r): the r-length subsequences of s, in
\* lexicographic order of their positions
RECURSIVE itertools_combinations(_, _)
itertools_combinations(s, r) ==
    IF r = 0 THEN << <<>> >>
    ELSE IF Len(s) < r THEN <<>>
    ELSE LET with == itertools_combinations(Tail(s), r - 1)
             without == itertools_combinations(Tail(s), r)
         IN  [i \in 1..Len(with) |-> <<Head(s)>> \o with[i]] \o without

\* range(len(s)) instead of range(len(s)+1)
powerset_short(a_iterable) ==
    LET s == a_iterable
    IN  chain_from_iterable([r \in 1..Len(s) |-> itertools_combinations(s, r - 1)])

powerset(a_iterable) ==
    LET s == a_iterable
    IN  chain_from_iterable([r \in 1..(Len(s) + 1) |-> itertools_combinations(s, r - 1)])

----------------------------------------------------------------------------
(* The accumulation of line 20. *)

\* a | b on non-negative integers
RECURSIVE bit_or(_, _)
bit_or(a, b) ==
    IF a = 0 THEN b
    ELSE IF b = 0 THEN a
    ELSE (IF a % 2 = 1 \/ b % 2 = 1 THEN 1 ELSE 0) + 2 * bit_or(a \div 2, b \div 2)

\* a & b on non-negative integers
RECURSIVE bit_and(_, _)
bit_and(a, b) ==
    IF a = 0 \/ b = 0 THEN 0
    ELSE (IF a % 2 = 1 /\ b % 2 = 1 THEN 1 ELSE 0) + 2 * bit_and(a \div 2, b \div 2)

\* sum & elem instead of sum | elem
or_lambda_and(sum, elem) == bit_and(sum, elem)

\* lambda sum, elem: sum | elem
or_lambda(sum, elem) == bit_or(sum, elem)

\* list(itertools.accumulate(iterable, lambda sum, elem: sum | elem,
\* initial=initial)): the running results, the initial value first
RECURSIVE accumulate(_, _)
accumulate(iterable, initial) ==
    IF iterable = <<>> THEN <<initial>>
    ELSE <<initial>> \o accumulate(Tail(iterable), or_lambda(initial, Head(iterable)))

\* list(itertools.accumulate(combo, lambda ..., initial=0))[-1]
accumulated_flags(c) ==
    LET l == accumulate(c, 0) IN l[Len(l)]

----------------------------------------------------------------------------
(* The argument list of lines 21-28. *)

upper_digit(d) ==
    CASE d = 0 -> "0" [] d = 1 -> "1" [] d = 2 -> "2" [] d = 3 -> "3"
      [] d = 4 -> "4" [] d = 5 -> "5" [] d = 6 -> "6" [] d = 7 -> "7"
      [] d = 8 -> "8" [] d = 9 -> "9" [] d = 10 -> "A" [] d = 11 -> "B"
      [] d = 12 -> "C" [] d = 13 -> "D" [] d = 14 -> "E" [] d = 15 -> "F"

\* "{:04X}".format(n), for n < 16^4
format_X_padded(n) ==
    upper_digit((n \div 4096) % 16) \o upper_digit((n \div 256) % 16)
        \o upper_digit((n \div 16) % 16) \o upper_digit(n % 16)

\* "{:X}".format(n), n >= 0
RECURSIVE format_X(_)
format_X(n) ==
    IF n < 16 THEN upper_digit(n)
    ELSE format_X(n \div 16) \o upper_digit(n % 16)

run_args(a_bsarch, a_directory, f, flags) ==
    << a_bsarch,
       "pack",
       a_directory,
       f \o "_" \o format_X(flags) \o ".bsa",
       "-" \o f,
       "-af:0x" \o format_X(flags) >>

\* a call of subprocess.run: what it was given, where, and how it went.
\* returncode is <<>> until the child has exited.
Call(a, dir, st) == [args |-> a, cwd |-> dir, state |-> st, returncode |-> <<>>]

----------------------------------------------------------------------------
(* The script. *)

Init ==
    /\ pc = "start"
    /\ argc \in 0..MaxArgs
    /\ bsarch_ok \in BOOLEAN
    /\ cwd = "orig"
    /\ bin \in {"absent", "dir", "file"}
    /\ bin_created = FALSE
    /\ combinations = <<>>
    /\ fmt_i = 1
    /\ format = ""
    /\ combo = <<>>
    /\ af = 0
    /\ args = <<>>
    /\ calls = <<>>
    /\ exit_code = <<>>

\* a parser that reports nothing and lets main go on
parse_arguments_lenient ==
    /\ pc = "start"
    /\ pc' = "main_chdir_here"
    /\ UNCHANGED <<argc, bsarch_ok, cwd, bin, bin_created, combinations, fmt_i,
                   format, combo, af, args, calls, exit_code>>

\* lines 31-35 and 38: two required positionals; anything else is an error,
\* which argparse reports and ends the process with status 2
parse_arguments ==
    /\ pc = "start"
    /\ IF argc = 2
       THEN pc' = "main_chdir_here" /\ UNCHANGED exit_code
       ELSE pc' = "usage_error" /\ exit_code' = <<2>>
    /\ UNCHANGED <<argc, bsarch_ok, cwd, bin, bin_created, combinations, fmt_i,
                   format, combo, af, args, calls>>

\* line 40
main_chdir_here ==
    /\ pc = "main_chdir_here"
    /\ cwd' = "here"
    /\ pc' = "main_makedirs"
    /\ UNCHANGED <<argc, bsarch_ok, bin, bin_created, combinations, fmt_i,
                   format, combo, af, args, calls, exit_code>>

\* lines 41-42: exist_ok=True accepts a directory, not a file
main_makedirs ==
    /\ pc = "main_makedirs"
    /\ CASE bin = "absent" ->
              /\ bin' = "dir" /\ bin_created' = TRUE
              /\ pc' = "main_chdir_out" /\ UNCHANGED exit_code
         [] bin = "dir" ->
              /\ pc' = "main_chdir_out"
              /\ UNCHANGED <<bin, bin_created, exit_code>>
         [] bin = "file" ->
              /\ pc' = "abort" /\ exit_code' = <<1>>
              /\ UNCHANGED <<bin, bin_created>>
    /\ UNCHANGED <<argc, bsarch_ok, cwd, combinations, fmt_i,
                   format, combo, af, args, calls>>

\* main going on without line 43
main_chdir_out_skipped ==
    /\ pc = "main_chdir_out"
    /\ pc' = "combinate"
    /\ UNCHANGED <<argc, bsarch_ok, cwd, bin, bin_created, combinations, fmt_i,
                   format, combo, af, args, calls, exit_code>>

\* line 43
main_chdir_out ==
    /\ pc = "main_chdir_out"
    /\ cwd' = "bin"
    /\ pc' = "combinate"
    /\ UNCHANGED <<argc, bsarch_ok, bin, bin_created, combinations, fmt_i,
                   format, combo, af, args, calls, exit_code>>

\* lines 16-17: one iterator over the power set, made once
combinate_enter ==
    /\ pc = "combinate"
    /\ combinations' = powerset(Flags)
    /\ fmt_i' = 1
    /\ pc' = "for_format"
    /\ UNCHANGED <<argc, bsarch_ok, cwd, bin, bin_created,
                   format, combo, af, args, calls, exit_code>>

\* line 18: the next format, or the end of combinate and of main
for_format ==
    /\ pc = "for_format"
    /\ IF fmt_i > Len(formats)
       THEN /\ pc' = "done" /\ exit_code' = <<0>>
            /\ UNCHANGED <<format, fmt_i>>
       ELSE /\ format' = formats[fmt_i] /\ fmt_i' = fmt_i + 1
            /\ pc' = "for_combo" /\ UNCHANGED exit_code
    /\ UNCHANGED <<argc, bsarch_ok, cwd, bin, bin_created, combinations,
                   combo, af, args, calls>>

\* subprocess.Popen in place of subprocess.run: the child is started and
\* the loop goes on without waiting for it
for_combo_nowait ==
    /\ pc = "for_combo"
    /\ IF combinations = <<>>
       THEN /\ pc' = "for_format"
            /\ UNCHANGED <<combinations, combo, af, args, calls, exit_code>>
       ELSE LET c == Head(combinations)
                flags == accumulated_flags(c)
                a == run_args("bsarch", "directory", format, flags)
            IN  /\ combinations' = Tail(combinations)
                /\ combo' = c /\ af' = flags /\ args' = a
                /\ calls' = Append(calls, Call(a, cwd, "running"))
                /\ pc' = "for_combo" /\ UNCHANGED exit_code
    /\ UNCHANGED <<argc, bsarch_ok, cwd, bin, bin_created, fmt_i, format>>

\* lines 19-29 up to the start of the child: the iterator of line 16 yields
\* its next tuple or is exhausted; a child that cannot be started raises
for_combo ==
    /\ pc = "for_combo"
    /\ IF combinations = <<>>
       THEN /\ pc' = "for_format"
            /\ UNCHANGED <<combinations, combo, af, args, calls, exit_code>>
       ELSE LET c == Head(combinations)
                flags == accumulated_flags(c)
                a == run_args("bsarch", "directory", format, flags)
            IN  /\ combinations' = Tail(combinations)
                /\ combo' = c /\ af' = flags /\ args' = a
                /\ IF bsarch_ok
                   THEN /\ calls' = Append(calls, Call(a, cwd, "running"))
                        /\ pc' = "wait" /\ UNCHANGED exit_code
                   ELSE /\ calls' = Append(calls, Call(a, cwd, "failed_to_start"))
                        /\ pc' = "abort" /\ exit_code' = <<1>>
    /\ UNCHANGED <<argc, bsarch_ok, cwd, bin, bin_created, fmt_i, format>>

\* the last call of the log, with the child exited with status rc
exited_last(rc) ==
    [calls EXCEPT ![Len(calls)] = [@ EXCEPT !.state = "exited", !.returncode = <<rc>>]]

\* check=False: the status is not looked at
subprocess_exit_unchecked ==
    /\ pc = "wait"
    /\ \E rc \in 0..MaxExit :
          /\ calls' = exited_last(rc)
          /\ pc' = "for_combo"
          /\ UNCHANGED exit_code
    /\ UNCHANGED <<argc, bsarch_ok, cwd, bin, bin_created, combinations, fmt_i,
                   format, combo, af, args>>

\* a failed call is made once more before giving up
subprocess_exit_retry ==
    /\ pc = "wait"
    /\ \E rc \in 0..MaxExit :
          IF rc = 0
          THEN /\ calls' = exited_last(rc)
               /\ pc' = "for_combo" /\ UNCHANGED exit_code
          ELSE IF Len(calls) >= 2 /\ calls[Len(calls) - 1].args = args
          THEN /\ calls' = exited_last(rc)
               /\ pc' = "abort" /\ exit_code' = <<1>>
          ELSE /\ calls' = Append(exited_last(rc), Call(args, cwd, "running"))
               /\ pc' = "wait" /\ UNCHANGED exit_code
    /\ UNCHANGED <<argc, bsarch_ok, cwd, bin, bin_created, combinations, fmt_i,
                   format, combo, af, args>>

\* lines 21 and 29: run blocks until the child exits; check=True raises on a
\* non-zero status, and nothing catches it
subprocess_exit ==
    /\ pc = "wait"
    /\ \E rc \in 0..MaxExit :
          /\ calls' = exited_last(rc)
          /\ IF rc = 0
             THEN pc' = "for_combo" /\ UNCHANGED exit_code
             ELSE pc' = "abort" /\ exit_code' = <<1>>
    /\ UNCHANGED <<argc, bsarch_ok, cwd, bin, bin_created, combinations, fmt_i,
                   format, combo, af, args>>

Next ==
    \/ parse_arguments
    \/ main_chdir_here
    \/ main_makedirs
    \/ main_chdir_out
    \/ combinate_enter
    \/ for_format
    \/ for_combo
    \/ subprocess_exit

Spec == Init /\ [][Next]_vars

FairSpec == Spec /\ WF_vars(Next)

----------------------------------------------------------------------------
(* The loop body alone. *)

\* every ordering of every subset of the flag values
Orderings ==
    LET vals == {Flags[i] : i \in 1..Len(Flags)}
    IN  {s \in UNION {[1..n -> vals] : n \in 0..Len(Flags)} :
            \A i, j \in 1..Len(s) : i # j => s[i] # s[j]}

PureInit ==
    /\ pc = "body"
    /\ format \in {formats[i] : i \in 1..Len(formats)}
    /\ combo \in Orderings
    /\ argc = 2
    /\ bsarch_ok = TRUE
    /\ cwd = "bin"
    /\ bin = "dir"
    /\ bin_created = FALSE
    /\ combinations = <<>>
    /\ fmt_i = 1
    /\ af = 0
    /\ args = <<>>
    /\ calls = <<>>
    /\ exit_code = <<>>

\* lines 20-28 on (format, combo)
loop_body ==
    /\ pc = "body"
    /\ af' = accumulated_flags(combo)
    /\ args' = run_args("bsarch", "directory", format, accumulated_flags(combo))
    /\ pc' = "body_done"
    /\ UNCHANGED <<argc, bsarch_ok, cwd, bin, bin_created, combinations, fmt_i,
                   format, combo, calls, exit_code>>

PureNext == loop_body

SpecPure == PureInit /\ [][PureNext]_vars

----------------------------------------------------------------------------
(* What the properties below are stated with. *)

FormatSet == {formats[i] : i \in 1..Len(formats)}

FlagSet == {Flags[i] : i \in 1..Len(Flags)}

\* the bitwise OR of a set of non-negative integers, bit by bit: a bit of the
\* result is set exactly when some member has it set
RECURSIVE SetOr(_)
SetOr(S) ==
    IF \A x \in S : x = 0 THEN 0
    ELSE (IF \E x \in S : x % 2 = 1 THEN 1 ELSE 0) + 2 * SetOr({x \div 2 : x \in S})

\* the values of all flag combinations
AllFlagValues == {SetOr(S) : S \in SUBSET FlagSet}

RefDigits ==
    <<"0", "1", "2", "3", "4", "5", "6", "7", "8", "9", "A", "B", "C", "D", "E", "F">>

\* uppercase hexadecimal without padding, written out by number of digits
RefHex(n) ==
    CASE n < 16 -> RefDigits[n + 1]
      [] n >= 16 /\ n < 256 -> RefDigits[(n \div 16) + 1] \o RefDigits[(n % 16) + 1]
      [] n >= 256 /\ n < 4096 ->
            RefDigits[(n \div 256) + 1] \o RefDigits[((n \div 16) % 16) + 1]
                \o RefDigits[(n % 16) + 1]

\* the call did not end with status zero: its child exited non-zero, or could
\* not be started at all
Failed(c) ==
    \/ c.state = "failed_to_start"
    \/ c.state = "exited" /\ c.returncode # <<0>>

ExitedZero(c) == c.state = "exited" /\ c.returncode = <<0>>

Terminated == pc \in {"done", "abort", "usage_error"}

InCombinate == pc \in {"combinate", "for_format", "for_combo", "wait"}

----------------------------------------------------------------------------
(* The properties. *)

\* C1: a run in which every archiver call exits with status zero makes
\* exactly 48 calls (3 formats times 16 flag combinations).
C1_FortyEightCalls ==
    (pc = "done" /\ \A i \in 1..Len(calls) : ExitedZero(calls[i]))
        => Len(calls) = 48

\* C2: in a run in which every archiver call exits zero, each (format, flag
\* value) pair of the 3 formats and 16 flag values is called exactly once.
C2_EveryPairExactlyOnce ==
    pc = "done" =>
        \A f \in FormatSet, v \in AllFlagValues :
            Cardinality({i \in 1..Len(calls) :
                            /\ calls[i].args[5] = "-" \o f
                            /\ calls[i].args[6] = "-af:0x" \o RefHex(v)}) = 1

\* C3: fail-fast. A call that did not end with status zero (the first one
\* included, as when the archiver cannot be executed) is the last call the
\* run makes: no later call, no second call of the same pair; and the run has
\* ended in failure, with a non-zero exit status.
C3_FailFast ==
    \A i \in 1..Len(calls) :
        Failed(calls[i]) =>
            /\ i = Len(calls)
            /\ pc = "abort"
            /\ Len(exit_code) = 1 /\ exit_code[1] # 0
            /\ \A j \in 1..Len(calls) : j # i => calls[j].args # calls[i].args

C3_Witness ==
    /\ Len(calls) = 3
    /\ calls[3].state = "exited" /\ calls[3].returncode = <<2>>
    /\ combinations # <<>>
    /\ pc = "abort"

\* C4: the power set of the four flag values, each tuple reduced by the OR
\* accumulation, is 16 pairwise distinct integers, 0 and 0x107 among them.
C4_SixteenDistinctValues ==
    (pc = "for_format" /\ fmt_i = 1) =>
        LET vals == [i \in 1..Len(combinations) |-> accumulated_flags(combinations[i])]
        IN  /\ Len(vals) = 16
            /\ \A i, j \in 1..Len(vals) : i # j => vals[i] # vals[j]
            /\ \E i \in 1..Len(vals) : vals[i] = 0
            /\ \E i \in 1..Len(vals) : vals[i] = 263
            /\ {vals[i] : i \in 1..Len(vals)} = AllFlagValues

C4_Witness ==
    /\ pc = "for_format" /\ fmt_i = 1
    /\ Len(combinations) = 16
    /\ combinations[1] = <<>>
    /\ combinations[16] = <<1, 2, 4, 256>>

\* C5: the argument list built for format f and flag value af names the
\* output file f, "_", af in uppercase hexadecimal without padding, ".bsa";
\* its format selector is "-" f and its flags selector "-af:0x" with the same
\* digits. tes5 with 0x107 gives tes5_107.bsa, and af = 0 gives f_0.bsa.
C5_ArgumentList ==
    pc = "body_done" =>
        /\ args = << "bsarch", "pack", "directory",
                     format \o "_" \o RefHex(af) \o ".bsa",
                     "-" \o format,
                     "-af:0x" \o RefHex(af) >>
        /\ (af = 0 => args[4] = format \o "_0.bsa")
        /\ (format = "tes5" /\ af = 263 => args[4] = "tes5_107.bsa")

C5_Witness ==
    /\ pc = "body_done"
    /\ format = "tes5" /\ combo = <<1, 2, 4, 256>>
    /\ args[4] = "tes5_107.bsa" /\ args[5] = "-tes5" /\ args[6] = "-af:0x107"

\* C6: with a command line that does not parse, nothing is done: the working
\* directory stays where it was, "bin" is not created, no archiver is called,
\* and the process ends with a non-zero status.
C6_UsageErrorDoesNothing ==
    argc # 2 =>
        /\ cwd = "orig"
        /\ ~bin_created
        /\ calls = <<>>
        /\ pc \in {"start", "usage_error"}
        /\ (pc = "usage_error" => Len(exit_code) = 1 /\ exit_code[1] # 0)

C6_Witness ==
    /\ argc = 1 /\ pc = "usage_error" /\ exit_code = <<2>>
    /\ bin = "absent" /\ cwd = "orig"

\* C7: for every ordering of every subset of the flag values, the
\* left-to-right OR accumulation from 0 is the bitwise OR of the subset's
\* members, whatever the order; for the empty subset it is 0.
C7_AccumulationIsSetOr ==
    pc = "body_done" =>
        /\ af = SetOr({combo[i] : i \in 1..Len(combo)})
        /\ (combo = <<>> => af = 0)

C7_Witness ==
    /\ pc = "body_done"
    /\ combo = <<256, 1, 4>>
    /\ af = 261

\* C8: the calls are strictly sequential: at most one archiver is running,
\* the script is blocked on it while it runs, and every call before the
\* latest one has exited.
C8_OneAtATime ==
    /\ Cardinality({i \in 1..Len(calls) : calls[i].state = "running"}) <= 1
    /\ \A i \in 1..Len(calls) :
          /\ calls[i].state = "running" => pc = "wait" /\ i = Len(calls)
          /\ i < Len(calls) => calls[i].state = "exited"

C8_Witness ==
    /\ Len(calls) = 2
    /\ calls[1].state = "exited"
    /\ calls[2].state = "running"

\* C9: "bin" exists and is the working directory from the entry of combinate
\* on, every archiver call is made with "bin" as the working directory, and
\* the working directory does not change once the calls have begun.
C9_WorkingDirectory ==
    /\ InCombinate => cwd = "bin" /\ bin = "dir"
    /\ calls # <<>> => cwd = "bin" /\ bin = "dir"
    /\ \A i \in 1..Len(calls) : calls[i].cwd = "bin"

C9_Witness ==
    /\ bin_created
    /\ Len(calls) = 16
    /\ calls[16].cwd = "bin"
    /\ cwd = "bin"

\* C10: the run terminates when every started archiver exits; it follows
\* start, then per call invoke, wait, continue or abort, then done; it ends
\* in done, with status 0, only if every call it made exited zero, and a call
\* that does not exit zero ends it in abort there and then.
C10_RunTerminates ==
    /\ <>Terminated
    /\ [][/\ (pc = "wait" => pc' \in {"for_combo", "abort"})
          /\ (pc' = "wait" => pc = "for_combo")
          /\ (pc' = "done" => pc = "for_format")
          /\ (Terminated => pc' = pc)]_vars
    /\ [](pc = "done" =>
            /\ exit_code = <<0>>
            /\ \A i \in 1..Len(calls) : ExitedZero(calls[i]))
    /\ []((\E i \in 1..Len(calls) : Failed(calls[i])) =>
            /\ pc = "abort"
            /\ \A i \in 1..Len(calls) : Failed(calls[i]) <=> i = Len(calls))

C10_Witness ==
    /\ pc = "done" /\ exit_code = <<0>>
    /\ calls # <<>>
    /\ \A i \in 1..Len(calls) : ExitedZero(calls[i])

====
